---- MODULE Spec2Model ----
(***************************************************************************)
(* Model of src/bot.py: the SQLite-backed candle store, order ledger and   *)
(* tick log (class Database), the candle fetch with its integrity checks,  *)
(* the regime classifier label_state, compute_atr, position_size, the      *)
(* trade decision engine trade_logic and the drive loop run_bot.           *)
(*                                                                         *)
(* Numbers.  Python floats are modelled as exact rationals.  Bar fields    *)
(* (high, low, close) and entry prices are integers.  Every value that     *)
(* involves the ATR (a mean over up to 20 bars) or range_mid (a half) is   *)
(* kept multiplied by Scale, so stops and targets are integers in units of *)
(* 1/Scale.  Order amounts are integers in units of 1e-8 (round(x, 8)).    *)
(* NaN (the max/min of an empty pandas slice) arises exactly when the      *)
(* series has a single bar; every comparison with it is false, as in IEEE  *)
(* arithmetic, and the operators below test for that case.                 *)
(***************************************************************************)
EXTENDS Integers, Sequences, FiniteSets, TLC

VARIABLES
    candles,      \* table candles: rows ordered by ts (UNIQUE ts, pair, timeframe)
    orders,       \* table orders: set of rows, key id
    order_seq,    \* sqlite_sequence of orders (AUTOINCREMENT): largest rowid ever used
    logs,         \* table logs: sequence of rows, append only
    pc,           \* run_bot: "stopped" (no process), "cycle" (top of loop), "sleep"
    is_live,      \* run_bot local is_live
    risk_pct,     \* run_bot argument risk_pct, as the denominator d of 1/d
    equity,       \* run_bot local equity
    peak_equity,  \* run_bot local peak_equity
    sleep_s,      \* seconds of the time.sleep the loop is in (0 when not sleeping)
    last,         \* observation of the last cycle: what trade_logic was given and returned
    ever_keys,    \* history: every candle key handed to store_candles so far
    kills,        \* history: number of external terminations of the process
    u             \* the uninterrupted reference run of the restart comparison

vars == <<candles, orders, order_seq, logs, pc, is_live, risk_pct, equity,
          peak_equity, sleep_s, last, ever_keys, kills, u>>

----------------------------------------------------------------------------
(* Program constants *)

TIMEFRAME_MS == 900000
LOOKBACK == 20
ATR_PERIOD == 20
PAPER_USDC == 1000
BACKOFF_S == 30
GAP_BARS == 4
QTY_UNITS == 100000000
DRAWDOWN_DEN == 10

(* Bounds of the model *)

MaxNewBars == 2
MaxKills == 1
MaxCalls == 2
MaxStoreTs == 4
MaxWindowExtra == 1
MaxPrice == 7

----------------------------------------------------------------------------
(* Values *)

\* None in a fetched bar's field, and the NULL id of an order not yet inserted
\* (prices, timestamps and rowids are positive)
NULL == -1
ID_NULL == 0

Min2(a, b) == IF a <= b THEN a ELSE b
Max2(a, b) == IF a >= b THEN a ELSE b
Abs(x) == IF x < 0 THEN -x ELSE x

RECURSIVE Gcd(_, _)
Gcd(a, b) == IF b = 0 THEN a ELSE Gcd(b, a % b)
Lcm(a, b) == (a * b) \div Gcd(a, b)

RECURSIVE LcmOf(_)
LcmOf(S) == IF S = {} THEN 1
            ELSE LET x == CHOOSE y \in S : TRUE IN Lcm(x, LcmOf(S \ {x}))

\* Lengths a candle series takes in this model: a single first bar or a full
\* LOOKBACK history, grown by new bars.
MaxGrowth == Max2(MaxNewBars, MaxCalls)
DfLens == (1 .. (1 + MaxGrowth)) \cup (LOOKBACK .. (LOOKBACK + MaxGrowth))

\* Common denominator of every mean (over Min2(n, ATR_PERIOD) bars), of the
\* median of an even number of ranges and of range_mid.
Scale == 2 * LcmOf({Min2(n, ATR_PERIOD) : n \in DfLens})

S(x) == x * Scale

SetMax(T) == CHOOSE x \in T : \A y \in T : y <= x
SetMin(T) == CHOOSE x \in T : \A y \in T : x <= y

\* index ranges of pandas s.tail(n) and s.iloc[-(n+1):-1] in a series of length len
TailIdx(len, n) == Max2(1, len - n + 1) .. len
PrecedingIdx(len, n) == Max2(1, len - n) .. (len - 1)

----------------------------------------------------------------------------
(* class Database *)

RECURSIVE SeqToSet(_)
SeqToSet(s) == IF s = <<>> THEN {} ELSE {s[1]} \cup SeqToSet(Tail(s))

Keys(rows) == {r.ts : r \in rows}

\* SELECT MAX(ts) FROM candles; "row[0] if row and row[0] else 0"
max_ts(cs) == IF cs = <<>> THEN 0 ELSE cs[Len(cs)].ts

\* Mutant: INSERT OR REPLACE, the stored row is overwritten by the new one.
RECURSIVE InsertRowReplace(_, _)
InsertRowReplace(cs, b) ==
    IF cs = <<>> THEN <<b>>
    ELSE IF b.ts = cs[1].ts THEN <<b>> \o Tail(cs)
    ELSE IF b.ts < cs[1].ts THEN <<b>> \o cs
    ELSE <<cs[1]>> \o InsertRowReplace(Tail(cs), b)

\* One INSERT OR IGNORE: a row whose (ts, pair, timeframe) is already stored is
\* dropped; otherwise the row is added (the table is kept here in ts order,
\* the order candles_dataframe reads it in).
RECURSIVE InsertRow(_, _)
InsertRow(cs, b) ==
    IF cs = <<>> THEN <<b>>
    ELSE IF b.ts = cs[1].ts THEN cs
    ELSE IF b.ts < cs[1].ts THEN <<b>> \o cs
    ELSE <<cs[1]>> \o InsertRow(Tail(cs), b)

\* executemany over the batch, in order
RECURSIVE store_candles(_, _)
store_candles(cs, bars) ==
    IF bars = <<>> THEN cs
    ELSE store_candles(InsertRow(cs, bars[1]), Tail(bars))

\* SELECT ... ORDER BY ts
candles_dataframe(cs) == cs

OpenOrders(os) == {o \in os : o.status = "open"}

\* SELECT * FROM orders WHERE status='open' ORDER BY id DESC LIMIT 1
\* (Optional[Order] is a sequence of length 0 or 1)
last_open_order(os) ==
    IF OpenOrders(os) = {} THEN <<>>
    ELSE <<CHOOSE o \in OpenOrders(os) : \A p \in OpenOrders(os) : p.id <= o.id>>

\* Mutant: the rowid of a new row reuses the largest rowid in use.
NewRowIdReuse(os, seq) == seq

\* INTEGER PRIMARY KEY AUTOINCREMENT, insert with id NULL: one more than the
\* largest rowid ever used
NewRowId(os, seq) == seq + 1

\* INSERT OR REPLACE INTO orders: a row with the same id is replaced.  The
\* result is the table and its sqlite_sequence.
record_order(os, seq, order) ==
    LET id  == IF order.id = ID_NULL THEN NewRowId(os, seq) ELSE order.id
        row == [order EXCEPT !.id = id]
    IN  [orders |-> {o \in os : o.id # id} \cup {row},
         seq    |-> Max2(seq, id)]

\* UPDATE orders SET status='closed', ts=? WHERE id=?
close_order(os, order_id, ts) ==
    {IF o.id = order_id THEN [o EXCEPT !.status = "closed", !.ts = ts] ELSE o : o \in os}

\* INSERT INTO logs
log_tick(ls, ts, state, decision, pnl, eq) ==
    Append(ls, [ts |-> ts, state |-> state, decision |-> decision, pnl |-> pnl, equity |-> eq])

----------------------------------------------------------------------------
(* Pure functions over a dataframe: a sequence of candle rows in ts order *)

\* df["high"].iloc[-21:-1].max() and df["low"].iloc[-21:-1].min()
High20(df) == SetMax({df[i].high : i \in PrecedingIdx(Len(df), LOOKBACK)})
Low20(df) == SetMin({df[i].low : i \in PrecedingIdx(Len(df), LOOKBACK)})

\* true range of bar i; close.shift() is NaN for the first bar and
\* max(axis=1) skips NaN
TrueRange(df, i) ==
    IF i = 1 THEN df[1].high - df[1].low
    ELSE Max2(df[i].high - df[i].low,
              Max2(Abs(df[i].high - df[i-1].close), Abs(df[i].low - df[i-1].close)))

\* tr.tail(period).mean(), times Scale
RECURSIVE SumTrueRange(_, _, _)
SumTrueRange(df, a, b) == IF a > b THEN 0 ELSE TrueRange(df, a) + SumTrueRange(df, a + 1, b)

compute_atr(df) ==
    LET a == Max2(1, Len(df) - ATR_PERIOD + 1)
    IN  (SumTrueRange(df, a, Len(df)) * Scale) \div (Len(df) - a + 1)

\* twice the median of an even-length sequence: the sum of its two middle values
Median2(s) ==
    LET t == SortSeq(s, LAMBDA a, b : a < b)
    IN  t[Len(t) \div 2] + t[(Len(t) \div 2) + 1]

\* Mutant: the length test is off by one.
TooShortByOne(n) == n < LOOKBACK

\* "if len(df) < 21: return chaos"
TooShort(n) == n < LOOKBACK + 1

\* Mutant: the overlap test is strict.
ConsolidatingStrict(atr, median2, span) == 200 * atr <= 101 * median2 /\ 2 * span < median2

\* "atr <= 1.01 * median_range and overlap", overlap being span <= median_range
\* (median2 is twice the median)
Consolidating(atr, median2, span) == 200 * atr <= 101 * median2 /\ 2 * span <= median2

\* Mutant: the direction is taken from new_low.
DecideByNewLow(consolidating, atr_expanding, new_high, new_low) ==
    IF consolidating THEN "consolidation"
    ELSE IF atr_expanding /\ (new_high \/ new_low)
         THEN (IF new_low THEN "up" ELSE "down")
         ELSE "chaos"

\* Mutant: every breakout with an expanding range is labelled up.
DecideUpOnAnyBreak(consolidating, atr_expanding, new_high, new_low) ==
    IF consolidating THEN "consolidation"
    ELSE IF atr_expanding /\ (new_high \/ new_low) THEN "up" ELSE "chaos"

\* the two tests of label_state, first match wins
Decide(consolidating, atr_expanding, new_high, new_low) ==
    IF consolidating THEN "consolidation"
    ELSE IF atr_expanding /\ (new_high \/ new_low)
         THEN (IF new_high THEN "up" ELSE "down")
         ELSE "chaos"

label_state(df) ==
    IF TooShort(Len(df)) THEN "chaos"
    ELSE
      LET n         == Len(df)
          atr       == df[n].high - df[n].low
          atr_prev  == df[n-1].high - df[n-1].low
          median2   == Median2([i \in 1..LOOKBACK |-> df[n - LOOKBACK + i].high
                                                      - df[n - LOOKBACK + i].low])
          span      == SetMax({df[i].high : i \in TailIdx(n, LOOKBACK)})
                       - SetMin({df[i].low : i \in TailIdx(n, LOOKBACK)})
          new_high  == df[n].close > High20(df)
          new_low   == df[n].close < Low20(df)
          atr_expanding == atr > atr_prev
      IN  Decide(Consolidating(atr, median2, span), atr_expanding, new_high, new_low)

\* round half to even of n/d, n >= 0, d > 0
RoundHalfEven(n, d) ==
    LET q == n \div d
        r == n % d
    IN  IF 2 * r < d THEN q
        ELSE IF 2 * r > d THEN q + 1
        ELSE IF q % 2 = 0 THEN q ELSE q + 1

\* usd_risk / price raises ZeroDivisionError when price is 0
position_size_raises(usdc_balance, price, risk_den) == price = 0

\* Mutant: the quotient is rounded to 7 decimal places.
PositionSizeCoarse(usdc_balance, price, risk_den) ==
    10 * RoundHalfEven(usdc_balance * (QTY_UNITS \div risk_den), 10 * price)

\* round(usdc_balance * (1/risk_den) / price, 8) in units of 1e-8;
\* (QTY_UNITS = 10^8); risk_den divides 10^8
position_size(usdc_balance, price, risk_den) ==
    RoundHalfEven(usdc_balance * (QTY_UNITS \div risk_den), price)

----------------------------------------------------------------------------
(* trade_logic *)

\* Mutant: the trailing stop follows the price both ways.
TrailLoose(order, last_close, atr) ==
    IF order.side = "buy"
    THEN [order EXCEPT !.stop = S(last_close) - atr, !.target = S(last_close) + atr]
    ELSE [order EXCEPT !.stop = S(last_close) + atr, !.target = S(last_close) - atr]

\* new_stop / new_target of an open order in regime up or down
Trail(order, last_close, atr) ==
    IF order.side = "buy"
    THEN [order EXCEPT !.stop = Max2(order.stop, S(last_close) - atr),
                       !.target = S(last_close) + atr]
    ELSE [order EXCEPT !.stop = Min2(order.stop, S(last_close) + atr),
                       !.target = S(last_close) - atr]

\* Mutant: the stop of a buy is tested against the high, of a sell against the low.
HitStopOtherEnd(order, bar) ==
    IF order.side = "buy" THEN S(bar.high) <= order.stop ELSE S(bar.low) >= order.stop

hit_stop(order, bar) ==
    IF order.side = "buy" THEN S(bar.low) <= order.stop ELSE S(bar.high) >= order.stop

hit_target(order, bar) ==
    IF order.side = "buy" THEN S(bar.high) >= order.target ELSE S(bar.low) <= order.target

\* Mutant: chaos does not flip.
StateFlipNoChaos(order, state) ==
    \/ (state = "up" /\ order.side = "sell")
    \/ (state = "down" /\ order.side = "buy")

\* Mutant: every label that is not consolidation, up or down flips.
StateFlipUnknownToo(order, state) ==
    \/ (state = "up" /\ order.side = "sell")
    \/ (state = "down" /\ order.side = "buy")
    \/ state \notin {"consolidation", "up", "down"}

state_flip(order, state) ==
    \/ (state = "up" /\ order.side = "sell")
    \/ (state = "down" /\ order.side = "buy")
    \/ state = "chaos"

\* Mutant: entry is evaluated although the order is still open.
ReturnsBeforeEntryNever(order_left) == FALSE

\* "if order: return decision, pnl": the order variable after the exit block
\* (empty when there was no open order or it was closed in this call)
ReturnsBeforeEntry(order_left) == order_left # <<>>

\* Mutant: the stop of an up breakout is taken from the close.
EntryStopFromClose(state, last_close, high20, low20, atr, has20) ==
    LET range_mid  == (S(high20 + low20)) \div 2
        range_size == high20 - low20
    IN  IF state = "consolidation" THEN
            IF has20 /\ 10 * last_close <= 10 * low20 + range_size
            THEN <<[side |-> "buy", stop |-> S(low20) - atr, target |-> range_mid]>>
            ELSE IF has20 /\ 10 * last_close >= 10 * high20 - range_size
            THEN <<[side |-> "sell", stop |-> S(high20) + atr, target |-> range_mid]>>
            ELSE <<>>
        ELSE IF state = "up" THEN
            IF has20 /\ last_close > high20
            THEN <<[side |-> "buy", stop |-> S(last_close) - atr, target |-> S(last_close) + atr]>>
            ELSE <<>>
        ELSE IF state = "down" THEN
            IF has20 /\ last_close < low20
            THEN <<[side |-> "sell", stop |-> S(low20) + atr, target |-> S(last_close) - atr]>>
            ELSE <<>>
        ELSE <<>>

\* The entry rule of a regime: a sequence holding [side, stop, target], or
\* empty for "return decision, pnl".  has20 is false when high20 and low20 are
\* NaN, and then every comparison is false.
Entry(state, last_close, high20, low20, atr, has20) ==
    LET range_mid  == (S(high20 + low20)) \div 2
        range_size == high20 - low20
    IN  IF state = "consolidation" THEN
            \* bottom_entry = low20 + 0.1 * range_size, top_entry = high20 - 0.1 * range_size
            IF has20 /\ 10 * last_close <= 10 * low20 + range_size
            THEN <<[side |-> "buy", stop |-> S(low20) - atr, target |-> range_mid]>>
            ELSE IF has20 /\ 10 * last_close >= 10 * high20 - range_size
            THEN <<[side |-> "sell", stop |-> S(high20) + atr, target |-> range_mid]>>
            ELSE <<>>
        ELSE IF state = "up" THEN
            IF has20 /\ last_close > high20
            THEN <<[side |-> "buy", stop |-> S(high20) - atr, target |-> S(last_close) + atr]>>
            ELSE <<>>
        ELSE IF state = "down" THEN
            IF has20 /\ last_close < low20
            THEN <<[side |-> "sell", stop |-> S(low20) + atr, target |-> S(last_close) - atr]>>
            ELSE <<>>
        ELSE <<>>

\* The value of a one-element set (binds a computed value once)
Only(T) == CHOOSE x \in T : TRUE

\* "exit logic and trailing": what the block does with the open order found.
\* order_left is the variable order after the block (empty when there was no
\* open order or it was closed).
exit_logic(os, seq, bar, state, atr, found) ==
    LET last_close == bar.close
        order      == IF state \in {"up", "down"}
                      THEN Trail(found[1], last_close, atr)
                      ELSE found[1]
        trailed    == order # found[1]
        db1        == IF trailed
                      THEN record_order(os, seq, order)
                      ELSE [orders |-> os, seq |-> seq]
        closes     == hit_stop(order, bar) \/ hit_target(order, bar) \/ state_flip(order, state)
        gross      == (last_close - order.price) * order.amount
    IN  IF found = <<>>
        THEN [orders |-> os, seq |-> seq, decision |-> "hold", pnl |-> 0,
              trailed |-> FALSE, closed |-> FALSE, order_left |-> <<>>]
        ELSE IF closes
        THEN [orders |-> close_order(db1.orders, order.id, bar.ts), seq |-> db1.seq,
              decision |-> "close",
              pnl |-> IF order.side = "sell" THEN -gross ELSE gross,
              trailed |-> trailed, closed |-> TRUE, order_left |-> <<>>]
        ELSE [orders |-> db1.orders, seq |-> db1.seq, decision |-> "hold", pnl |-> 0,
              trailed |-> trailed, closed |-> FALSE, order_left |-> <<order>>]

\* "entry logic", given the result x of the exit block.  bal is what
\* exchange.fetch_balance() gives: [ok, USDC, BTC].
entry_logic(x, bar, state, live, risk_den, bal, atr, high20, low20, has20) ==
    LET last_close == bar.close
        usdc       == IF live THEN bal.USDC ELSE PAPER_USDC
        entry      == Entry(state, last_close, high20, low20, atr, has20)
        new_order  == [id |-> ID_NULL, ts |-> bar.ts, side |-> entry[1].side,
                       price |-> last_close,
                       amount |-> position_size(usdc, last_close, risk_den),
                       stop |-> entry[1].stop, target |-> entry[1].target,
                       status |-> "open"]
        db3        == record_order(x.orders, x.seq, new_order)
        ret(os_, seq_, dec, raised, opened) ==
            [orders |-> os_, seq |-> seq_, decision |-> dec, pnl |-> x.pnl, raised |-> raised,
             trailed |-> x.trailed, closed |-> x.closed, opened |-> opened]
    IN  IF ReturnsBeforeEntry(x.order_left) THEN ret(x.orders, x.seq, x.decision, FALSE, FALSE)
        ELSE IF (live /\ ~bal.ok) \/ position_size_raises(usdc, last_close, risk_den)
        THEN ret(x.orders, x.seq, x.decision, TRUE, FALSE)
        ELSE IF entry = <<>> THEN ret(x.orders, x.seq, x.decision, FALSE, FALSE)
        ELSE ret(db3.orders, db3.seq, entry[1].side, FALSE, TRUE)

\* The result of one call: the orders table and its sqlite_sequence as the
\* call leaves them, the returned (decision, pnl), whether the call raised
\* instead of returning (the writes made before the raise are committed), and
\* which of its writes it made: the trailing record_order, close_order, the
\* record_order of a new order.
trade_logic(os, seq, df, state, live, risk_den, bal) ==
    LET bar   == df[Len(df)]
        has20 == Len(df) >= 2
    IN  Only({ entry_logic(x, bar, state, live, risk_den, bal, atr, high20, low20, has20) :
                 x \in { Only({ exit_logic(os, seq, bar, state, atr, found) :
                                  found \in {last_open_order(os)} }) :
                         atr \in {compute_atr(df)} },
                 atr \in {compute_atr(df)},
                 high20 \in {IF has20 THEN High20(df) ELSE 0},
                 low20 \in {IF has20 THEN Low20(df) ELSE 0} })

----------------------------------------------------------------------------
(* fetch_new_candles *)

HasNull(b) ==
    \/ b.ts = NULL \/ b.open = NULL \/ b.high = NULL
    \/ b.low = NULL \/ b.close = NULL \/ b.volume = NULL

\* Mutant: the gap test allows one bar-width more.
GapTooLargeLax(d) == d > TIMEFRAME_MS * (GAP_BARS + 1)

\* "ts - timestamps[-1] > TIMEFRAME_MS * 4"
GapTooLarge(d) == d > TIMEFRAME_MS * GAP_BARS

\* The ValueError tests of fetch_new_candles on the fetched bars, given the
\* stored series: an empty result, a None field, a gap between consecutive
\* fetched bars, a repeated timestamp, a gap after the last stored bar.
IntegrityFault(cs, bars) ==
    LET last_ts == max_ts(cs)
    IN  \/ bars = <<>>
        \/ \E i \in 1..Len(bars) : HasNull(bars[i])
        \/ \E i \in 2..Len(bars) : GapTooLarge(bars[i].ts - bars[i-1].ts)
        \/ Cardinality({bars[i].ts : i \in 1..Len(bars)}) # Len(bars)
        \/ (last_ts # 0 /\ GapTooLarge(bars[1].ts - last_ts))

----------------------------------------------------------------------------
(* get_equity and one iteration of the loop of run_bot *)

\* bal is exchange.fetch_balance(): [ok, USDC, BTC]
get_equity(live, last_price, bal) ==
    IF live THEN bal.USDC + bal.BTC * last_price ELSE PAPER_USDC

\* peak_equity = max(peak_equity, equity)
NewPeak(peak, eq) == Max2(peak, eq)

\* Mutant: the latch re-arms once the drawdown is back under the threshold.
NewIsLiveRearm(live, peak, eq) == DRAWDOWN_DEN * (peak - eq) < peak

\* "if drawdown >= 0.10 and is_live: is_live = False", drawdown being
\* (peak_equity - equity) / peak_equity with peak_equity > 0 (0.10 = 1/DRAWDOWN_DEN)
NewIsLive(live, peak, eq) == live /\ ~(DRAWDOWN_DEN * (peak - eq) >= peak)

\* Mutant: an exception ends the loop.
AfterExceptionStops == [pc |-> "stopped", sleep_s |-> 0]

\* "except Exception: logging.error(...); time.sleep(30)", then the loop goes on
AfterException == [pc |-> "sleep", sleep_s |-> BACKOFF_S]

\* what a call of trade_logic was given and did
CallOf(state, r) ==
    [state |-> state, decision |-> r.decision, pnl |-> r.pnl, raised |-> r.raised,
     trailed |-> r.trailed, closed |-> r.closed, opened |-> r.opened]

NoCall == [state |-> "", decision |-> "", pnl |-> 0, raised |-> FALSE,
           trailed |-> FALSE, closed |-> FALSE, opened |-> FALSE]

\* One pass through the try block.  fetch is [ok, bars]: what
\* exchange.fetch_ohlcv gives (ok false: it raises).  bal1 is the balance
\* trade_logic fetches, bal2 the one get_equity fetches.  The result holds
\* the three tables, the locals of run_bot and where the pass ended:
\*   "fetch"   fetch_new_candles raised (REST error or integrity fault)
\*   "engine"  trade_logic raised        "equity"  get_equity raised
\*   "zerodiv" the drawdown division raised        "done"  the tick was logged
run_cycle(cs, os, seq, ls, live, risk_den, eq, peak, fetch, bal1, bal2) ==
    LET unchanged == [candles |-> cs, orders |-> os, order_seq |-> seq, logs |-> ls,
                      is_live |-> live, equity |-> eq, peak_equity |-> peak,
                      outcome |-> "fetch", call |-> NoCall]
        rest(df, state, r) ==
            LET traded  == [unchanged EXCEPT !.candles = df, !.orders = r.orders,
                                             !.order_seq = r.seq, !.call = CallOf(state, r)]
                bar     == df[Len(df)]
                equity2 == get_equity(live, bar.close, bal2)
                peak2   == NewPeak(peak, equity2)
            IN  IF r.raised THEN [traded EXCEPT !.outcome = "engine"]
                ELSE IF live /\ ~bal2.ok THEN [traded EXCEPT !.outcome = "equity"]
                ELSE IF peak2 = 0
                THEN [traded EXCEPT !.outcome = "zerodiv", !.equity = equity2,
                                    !.peak_equity = peak2]
                ELSE [traded EXCEPT !.outcome = "done", !.equity = equity2,
                                    !.peak_equity = peak2,
                                    !.is_live = NewIsLive(live, peak2, equity2),
                                    !.logs = log_tick(ls, bar.ts, state, r.decision, r.pnl,
                                                      equity2)]
        engine(df, state) ==
            Only({rest(df, state, r) :
                    r \in {trade_logic(os, seq, df, state, live, risk_den, bal1)}})
        classify(df) == Only({engine(df, state) : state \in {label_state(df)}})
    IN  IF ~fetch.ok \/ IntegrityFault(cs, fetch.bars) THEN unchanged
        ELSE Only({classify(df) : df \in {candles_dataframe(store_candles(cs, fetch.bars))}})

----------------------------------------------------------------------------
(* Inputs: what the exchange returns *)

Bar(ts, h, l, c) == [ts |-> ts, open |-> c, high |-> h, low |-> l, close |-> c, volume |-> 1]
BarAt(ts, v) == Bar(ts, v[1], v[2], v[3])

\* (high, low, close) of the bars the exchange serves
HistHLC == <<102, 98, 100>>
LoopBars == { <<102, 98, 100>>, <<102, 98, 98>>, <<105, 100, 103>> }
FewBars == { <<102, 98, 100>>, <<102, 98, 98>> }
FlatBars == { <<102, 98, 100>> }

\* a full lookback of identical bars, the first fetch of an empty store
History == [i \in 1..LOOKBACK |-> BarAt(i * TIMEFRAME_MS, HistHLC)]

\* a single bar, the first fetch of an empty store on a new market
FirstBars == {<<BarAt(TIMEFRAME_MS, v)>> : v \in FewBars}

NullBar(ts) == [Bar(ts, 100, 100, 100) EXCEPT !.close = NULL]

\* Bars the exchange can return for since = last_ts + TIMEFRAME_MS
NextBatches(cs, values) ==
    LET t1 == max_ts(cs) + TIMEFRAME_MS
    IN  {<<BarAt(t1, v)>> : v \in values}
        \cup {<<BarAt(t1, HistHLC), BarAt(t1 + g * TIMEFRAME_MS, <<102, 98, 98>>)>> :
                 g \in {1, GAP_BARS}}

FaultyBatches(cs) ==
    LET t1 == max_ts(cs) + TIMEFRAME_MS
    IN  { <<>>, <<NullBar(t1)>>,
          <<BarAt(t1, HistHLC), BarAt(t1, HistHLC)>>,
          <<BarAt(t1, HistHLC), BarAt(t1 + (GAP_BARS + 1) * TIMEFRAME_MS, HistHLC)>> }
        \cup (IF cs = <<>> THEN {} ELSE {<<BarAt(t1 + GAP_BARS * TIMEFRAME_MS, HistHLC)>>})

Cap(cs, new) == IF Len(cs) >= LOOKBACK THEN LOOKBACK + new ELSE 1 + new

Fetches(cs, values, new) ==
    {[ok |-> FALSE, bars |-> <<>>]}
    \cup {[ok |-> TRUE, bars |-> b] : b \in FaultyBatches(cs)}
    \cup {[ok |-> TRUE, bars |-> b] :
             b \in IF cs = <<>>
                   THEN {History} \cup FirstBars
                   ELSE {x \in NextBatches(cs, values) : Len(cs) + Len(x) <= Cap(cs, new)}}

Bal(usdc, btc) == [ok |-> TRUE, USDC |-> usdc, BTC |-> btc]
BalError == [ok |-> FALSE, USDC |-> 0, BTC |-> 0]
Labels == {"consolidation", "up", "down", "chaos", "sideways"}

----------------------------------------------------------------------------
(* The drive loop *)

NoLast == [outcome |-> "none", call |-> NoCall]
NoRun == [started |-> FALSE, flag |-> FALSE, orders |-> {}, order_seq |-> 0, logs |-> <<>>,
          is_live |-> FALSE, equity |-> 0, peak_equity |-> 0]

\* Mutant: the table is created anew at every start.
CreateTableEmpty(rows) == {}

\* Database(DB_FILE): CREATE TABLE IF NOT EXISTS keeps the rows of an existing file
create_table_if_not_exists(rows) == rows

Init ==
    /\ candles = <<>>
    /\ orders = {}
    /\ order_seq = 0
    /\ logs = <<>>
    /\ pc = "stopped"
    /\ is_live = FALSE
    /\ risk_pct = 100
    /\ equity = 0
    /\ peak_equity = 0
    /\ sleep_s = 0
    /\ last = NoLast
    /\ ever_keys = {}
    /\ kills = 0
    /\ u = NoRun

\* run_bot(is_live, risk_pct) up to the loop
StartRun(flag, risk_den, bal) ==
    /\ pc = "stopped"
    /\ flag => bal.ok
    /\ orders' = create_table_if_not_exists(orders)
    /\ is_live' = flag
    /\ risk_pct' = risk_den
    /\ equity' = get_equity(flag, 0, bal)
    /\ peak_equity' = get_equity(flag, 0, bal)
    /\ pc' = "cycle"
    /\ sleep_s' = 0
    /\ last' = NoLast
    /\ UNCHANGED <<candles, order_seq, logs, ever_keys, kills>>

Start(flag, risk_den, bal) == StartRun(flag, risk_den, bal) /\ UNCHANGED u

\* one iteration of "while True"
CycleRun(fetch, bal1, bal2) ==
    /\ pc = "cycle"
    /\ \E r \in {run_cycle(candles, orders, order_seq, logs, is_live, risk_pct,
                             equity, peak_equity, fetch, bal1, bal2)} :
       LET nx == IF r.outcome = "done"
                 THEN [pc |-> "sleep", sleep_s |-> TIMEFRAME_MS \div 1000]
                 ELSE AfterException
       IN  /\ candles' = r.candles
           /\ orders' = r.orders
           /\ order_seq' = r.order_seq
           /\ logs' = r.logs
           /\ is_live' = r.is_live
           /\ equity' = r.equity
           /\ peak_equity' = r.peak_equity
           /\ pc' = nx.pc
           /\ sleep_s' = nx.sleep_s
           /\ last' = [outcome |-> r.outcome, call |-> r.call]
           /\ ever_keys' = IF r.outcome = "fetch" THEN ever_keys
                           ELSE ever_keys \cup {fetch.bars[i].ts : i \in 1..Len(fetch.bars)}
    /\ UNCHANGED <<risk_pct, kills>>

Cycle(fetch, bal1, bal2) == CycleRun(fetch, bal1, bal2) /\ UNCHANGED u

\* time.sleep returns
Wake ==
    /\ pc = "sleep"
    /\ pc' = "cycle"
    /\ sleep_s' = 0
    /\ UNCHANGED <<candles, orders, order_seq, logs, is_live, risk_pct, equity,
                   peak_equity, last, ever_keys, kills, u>>

\* the process is terminated from outside, between two iterations
Kill ==
    /\ pc # "stopped"
    /\ kills < MaxKills
    /\ kills' = kills + 1
    /\ pc' = "stopped"
    /\ is_live' = FALSE
    /\ equity' = 0
    /\ peak_equity' = 0
    /\ sleep_s' = 0
    /\ last' = NoLast
    /\ UNCHANGED <<candles, orders, order_seq, logs, risk_pct, ever_keys, u>>

\* The loop trading: a steady exchange balance, and calls that can fail.
TradeBalances(live) == IF live THEN {Bal(1000, 0), BalError} ELSE {BalError}

Next ==
    \/ \E flag \in BOOLEAN : Start(flag, 100, Bal(1000, 0))
    \/ \E f \in Fetches(candles, LoopBars, MaxNewBars) :
          \E b1 \in TradeBalances(is_live), b2 \in TradeBalances(is_live) : Cycle(f, b1, b2)
    \/ Wake
    \/ Kill

Spec == Init /\ [][Next]_vars

\* The loop with a moving exchange balance, on flat bars.
RiskBalances(live) ==
    IF live THEN {Bal(1000, 0), Bal(900, 0), Bal(0, 0), BalError} ELSE {BalError}

NextRisk ==
    \/ \E flag \in BOOLEAN : \E bal \in RiskBalances(flag) : Start(flag, 100, bal)
    \/ \E f \in Fetches(candles, FlatBars, MaxNewBars) :
          \E b1 \in TradeBalances(is_live), b2 \in RiskBalances(is_live) : Cycle(f, b1, b2)
    \/ Wake
    \/ Kill

SpecRisk == Init /\ [][NextRisk]_vars

----------------------------------------------------------------------------
(* trade_logic called directly on a dataframe, with any regime label *)

InitEngine ==
    /\ candles \in {History} \cup FirstBars
    /\ orders = {}
    /\ order_seq = 0
    /\ logs = <<>>
    /\ pc = "stopped"
    /\ is_live = FALSE
    /\ risk_pct = 100
    /\ equity = 0
    /\ peak_equity = 0
    /\ sleep_s = 0
    /\ last = NoLast
    /\ ever_keys = {}
    /\ kills = 0
    /\ u = NoRun

\* df = pd.concat([df, bar]); trade_logic(db, df, state, is_live, risk_pct)
EngineCall(v, state, live, bal) ==
    /\ Len(candles) < Cap(candles, MaxCalls)
    /\ \E df \in {Append(candles, BarAt(max_ts(candles) + TIMEFRAME_MS, v))} :
       \E r \in {trade_logic(orders, order_seq, df, state, live, risk_pct, bal)} :
           /\ candles' = df
           /\ orders' = r.orders
           /\ order_seq' = r.seq
           /\ last' = [outcome |-> IF r.raised THEN "engine" ELSE "returned",
                       call |-> CallOf(state, r)]
    /\ UNCHANGED <<logs, pc, is_live, risk_pct, equity, peak_equity, sleep_s,
                   ever_keys, kills, u>>

EngineBars == { <<102, 98, 100>>, <<102, 98, 98>>, <<105, 100, 103>>, <<100, 95, 97>> }
EngineBalances(live) == IF live THEN {Bal(1000, 0), BalError} ELSE {BalError}

NextEngine ==
    \E v \in EngineBars, state \in Labels, live \in BOOLEAN :
        \E bal \in EngineBalances(live) : EngineCall(v, state, live, bal)

SpecEngine == InitEngine /\ [][NextEngine]_vars

----------------------------------------------------------------------------
(* store_candles called directly with any batches *)

StoreRows ==
    {BarAt(k * TIMEFRAME_MS, v) : k \in 1..MaxStoreTs,
                                  v \in {<<102, 98, 100>>, <<102, 98, 98>>, <<105, 100, 103>>}}
StoreBatches == {<<>>} \cup {<<a>> : a \in StoreRows} \cup {<<a, b>> : a \in StoreRows, b \in StoreRows}

InitStore ==
    /\ candles = <<>>
    /\ orders = {}
    /\ order_seq = 0
    /\ logs = <<>>
    /\ pc = "stopped"
    /\ is_live = FALSE
    /\ risk_pct = 100
    /\ equity = 0
    /\ peak_equity = 0
    /\ sleep_s = 0
    /\ last = NoLast
    /\ ever_keys = {}
    /\ kills = 0
    /\ u = NoRun

\* db.store_candles(bars)
StoreCall(bars) ==
    /\ candles' = store_candles(candles, bars)
    /\ ever_keys' = ever_keys \cup {bars[i].ts : i \in 1..Len(bars)}
    /\ last' = [outcome |-> IF Len(store_candles(candles, bars)) < Len(candles) + Len(bars)
                            THEN "ignored" ELSE "stored",
                call |-> NoCall]
    /\ UNCHANGED <<orders, order_seq, logs, pc, is_live, risk_pct, equity, peak_equity,
                   sleep_s, kills, u>>

NextStore == \E bars \in StoreBatches : StoreCall(bars)

SpecStore == InitStore /\ [][NextStore]_vars

----------------------------------------------------------------------------
(* A run that is restarted, beside the same run left uninterrupted.  Both are
   fed the same bars and the same exchange answers; u holds the ledger, the
   tick log and the locals of the uninterrupted run. *)

RunOf(flag, os, seq, ls, live, eq, peak) ==
    [started |-> TRUE, flag |-> flag, orders |-> os, order_seq |-> seq, logs |-> ls,
     is_live |-> live, equity |-> eq, peak_equity |-> peak]

\* both runs start, on the same database file
BothStart(flag, bal) ==
    /\ ~u.started
    /\ StartRun(flag, 100, bal)
    /\ u' = RunOf(flag, orders, order_seq, logs, flag,
                  get_equity(flag, 0, bal), get_equity(flag, 0, bal))

\* both runs make one iteration on the same fetch
BothCycle(fetch, bal1, bal2) ==
    /\ u.started
    /\ CycleRun(fetch, bal1, bal2)
    /\ \E r \in {run_cycle(candles, u.orders, u.order_seq, u.logs, u.is_live, risk_pct,
                             u.equity, u.peak_equity, fetch, bal1, bal2)} :
           u' = RunOf(u.flag, r.orders, r.order_seq, r.logs, r.is_live, r.equity, r.peak_equity)

\* the restarted run is started again with the flag it was first started with
Restart(bal) ==
    /\ u.started
    /\ Start(u.flag, 100, bal)

RestartBalances(live) == IF live THEN {Bal(1000, 0), Bal(900, 0)} ELSE {BalError}

NextRestart ==
    \/ \E flag \in BOOLEAN : \E bal \in RestartBalances(flag) : BothStart(flag, bal)
    \/ \E f \in Fetches(candles, FewBars, MaxNewBars) :
          \E b \in RestartBalances(is_live \/ u.is_live) : BothCycle(f, b, b)
    \/ Wake
    \/ Kill
    \/ \E bal \in RestartBalances(u.flag) : Restart(bal)

SpecRestart == Init /\ [][NextRestart]_vars

----------------------------------------------------------------------------
(* label_state called directly on a window of bars *)

\* (high, low, close) of the bars of a window; the last one has high < low
LabelBars == { <<102, 98, 100>>, <<100, 100, 100>>, <<101, 99, 100>>, <<105, 102, 104>>,
               <<110, 101, 109>>, <<99, 90, 91>>, <<98, 102, 100>> }

WindowLens == (0..2) \cup ((LOOKBACK - 1) .. (LOOKBACK + 1 + MaxWindowExtra))

\* make_df: n bars, a and a2 in turn, then b, then c as the last bar
RECURSIVE WindowUpTo(_, _, _, _, _, _)
WindowUpTo(k, n, a, a2, b, c) ==
    IF k = 0 THEN <<>>
    ELSE Append(WindowUpTo(k - 1, n, a, a2, b, c),
                BarAt(k * TIMEFRAME_MS,
                      IF k = n THEN c ELSE IF k = n - 1 THEN b
                      ELSE IF k % 2 = 1 THEN a ELSE a2))

Window(n, a, a2, b, c) == WindowUpTo(n, n, a, a2, b, c)

\* the windows label_state is given
InitLabel ==
    /\ candles \in {Window(n, a, a2, b, c) :
                      n \in WindowLens, a \in LabelBars, a2 \in LabelBars,
                      b \in LabelBars, c \in LabelBars}
    /\ orders = {}
    /\ order_seq = 0
    /\ logs = <<>>
    /\ pc = "stopped"
    /\ is_live = FALSE
    /\ risk_pct = 100
    /\ equity = 0
    /\ peak_equity = 0
    /\ sleep_s = 0
    /\ last = NoLast
    /\ ever_keys = {}
    /\ kills = 0
    /\ u = NoRun

\* state = label_state(df)
LabelCall ==
    /\ last.outcome = "none"
    /\ \E state \in {label_state(candles)} :
          last' = [outcome |-> "labelled", call |-> [NoCall EXCEPT !.state = state]]
    /\ UNCHANGED <<candles, orders, order_seq, logs, pc, is_live, risk_pct, equity,
                   peak_equity, sleep_s, ever_keys, kills, u>>

NextLabel == LabelCall

SpecLabel == InitLabel /\ [][NextLabel]_vars

----------------------------------------------------------------------------
(* position_size called directly *)

SizeBalances == {0, 1, 10, 99, 100}
SizePrices == 0..MaxPrice
\* risk_pct as 1/risk_den: 0.005, 0.01, 0.02, 0.05
SizeRisks == {200, 100, 50, 20}

SizeArgs(usdc, price, risk_den) ==
    [usdc |-> usdc, price |-> price, risk_den |-> risk_den, amount |-> 0, raised |-> FALSE]

InitSize ==
    /\ candles = <<>>
    /\ orders = {}
    /\ order_seq = 0
    /\ logs = <<>>
    /\ pc = "stopped"
    /\ is_live = FALSE
    /\ risk_pct = 100
    /\ equity = 0
    /\ peak_equity = 0
    /\ sleep_s = 0
    /\ last \in {[outcome |-> "none", call |-> SizeArgs(usdc, price, risk_den)] :
                   usdc \in SizeBalances, price \in SizePrices, risk_den \in SizeRisks}
    /\ ever_keys = {}
    /\ kills = 0
    /\ u = NoRun

\* amount = position_size(usdc, price, risk_pct)
SizeCall ==
    /\ last.outcome = "none"
    /\ \E raised \in {position_size_raises(last.call.usdc, last.call.price, last.call.risk_den)} :
          last' = [outcome |-> "sized",
                   call |-> [last.call EXCEPT
                               !.raised = raised,
                               !.amount = IF raised THEN 0
                                          ELSE position_size(last.call.usdc, last.call.price,
                                                             last.call.risk_den)]]
    /\ UNCHANGED <<candles, orders, order_seq, logs, pc, is_live, risk_pct, equity,
                   peak_equity, sleep_s, ever_keys, kills, u>>

NextSize == SizeCall

SpecSize == InitSize /\ [][NextSize]_vars

----------------------------------------------------------------------------
(* Properties of the order ledger under trade_logic *)

Ids(os) == {o.id : o \in os}

\* C1: after any sequence of trade_logic calls (any bars, any regime label,
\* live or paper) the orders table holds at most one row with status open.
C1_AtMostOneOpen == Cardinality(OpenOrders(orders)) <= 1

\* a call found an order open, closed it, and the ledger now holds a later open order
C1_Witness ==
    /\ Cardinality(OpenOrders(orders)) = 1
    /\ \E o \in orders : o.status = "closed"
    /\ last.call.opened

\* C2: a call that closes the open order opens no new order, and
\* last_open_order afterwards returns none.
C2_NoEntryAfterClose ==
    [][(\E o \in OpenOrders(orders) : \E p \in orders' : p.id = o.id /\ p.status = "closed")
         => (Ids(orders') = Ids(orders) /\ last_open_order(orders') = <<>>)]_vars

\* C3: the persisted stop of an open buy order never decreases and that of an
\* open sell order never increases, whatever the call does to it.
C3_StopOnlyTightens ==
    [][\A o \in OpenOrders(orders) : \A p \in orders' :
          p.id = o.id => IF o.side = "buy" THEN p.stop >= o.stop ELSE p.stop <= o.stop]_vars

\* a call trailed the open order and left it open
C3_Witness == last.call.trailed /\ ~last.call.closed /\ OpenOrders(orders) # {}

----------------------------------------------------------------------------
(* Properties of the drive loop *)

Errors == {"fetch", "engine", "equity", "zerodiv"}

\* C5: in a run, a cycle that computes a drawdown of at least 0.10 while
\* is_live is true sets is_live false; is_live then stays false for the rest of
\* the run, whatever the equity does; peak_equity never decreases in a run.
C5_DrawdownLatch ==
    [][/\ (pc = "cycle" /\ last'.outcome = "done" /\ is_live
             /\ DRAWDOWN_DEN * (peak_equity' - equity') >= peak_equity') => ~is_live'
       /\ (pc # "stopped" /\ ~is_live) => ~is_live'
       /\ (pc # "stopped" /\ pc' # "stopped") => peak_equity' >= peak_equity]_vars

\* a first run, started live, logged the equity 900 under the peak 1000, was
\* latched, and the equity of the next tick is back at the peak
C5_Witness ==
    /\ kills = 0 /\ pc = "sleep" /\ ~is_live /\ peak_equity = 1000
    /\ Len(logs) >= 2
    /\ logs[Len(logs) - 1].equity = 900
    /\ logs[Len(logs)].equity = 1000

\* C6: a cycle in which trade_logic runs appends exactly one entry to the tick
\* log, no cycle changes the ledger without logging, and a log entry is never
\* modified.
C6_OneTickPerEngineRun ==
    [][/\ (pc = "cycle" /\ last'.outcome \in {"engine", "equity", "zerodiv", "done"})
             => Len(logs') = Len(logs) + 1
       /\ orders' # orders => Len(logs') = Len(logs) + 1
       /\ Len(logs') >= Len(logs)
       /\ SubSeq(logs', 1, Len(logs)) = logs]_vars

\* The faults as the claim lists them
ClaimedFault(cs, bars) ==
    \/ bars = <<>>
    \/ \E i \in 1..Len(bars) :
          NULL \in {bars[i].ts, bars[i].open, bars[i].high, bars[i].low, bars[i].close,
                    bars[i].volume}
    \/ \E i \in 1..Len(bars), j \in 1..Len(bars) : i < j /\ bars[i].ts = bars[j].ts
    \/ \E i \in 2..Len(bars) : bars[i].ts - bars[i-1].ts > GAP_BARS * TIMEFRAME_MS
    \/ (cs # <<>> /\ bars[1].ts - cs[Len(cs)].ts > GAP_BARS * TIMEFRAME_MS)

\* C7: whenever the fetched bars hold a data-integrity fault the cycle ends in
\* the error path (back-off) and leaves candles, orders and logs as they were.
C7_FaultAbortsCycle ==
    /\ [](pc = "cycle" =>
            \A f \in Fetches(candles, LoopBars, MaxNewBars) :
               (f.ok /\ ClaimedFault(candles, f.bars)) =>
                  \A b \in TradeBalances(is_live) :
                     \E r \in {run_cycle(candles, orders, order_seq, logs, is_live, risk_pct,
                                         equity, peak_equity, f, b, b)} :
                        /\ r.outcome = "fetch"
                        /\ r.candles = candles /\ r.orders = orders /\ r.logs = logs)
    /\ [][(pc = "cycle" /\ last'.outcome = "fetch") =>
            /\ candles' = candles /\ orders' = orders /\ logs' = logs
            /\ pc' = "sleep" /\ sleep_s' = BACKOFF_S]_vars

\* a cycle was aborted by fetch_new_candles with candles, an order and a tick stored
C7_Witness ==
    /\ pc = "sleep" /\ last.outcome = "fetch"
    /\ Len(candles) > LOOKBACK /\ orders # {} /\ logs # <<>>

Decisions(ls) == [i \in 1..Len(ls) |-> ls[i].decision]

\* C8: a run restarted between two cycles and fed the same bars makes the same
\* decisions and has the same order ledger as the run left uninterrupted.
C8_RestartSameAsUninterrupted ==
    u.started => (orders = u.orders /\ Decisions(logs) = Decisions(u.logs))

\* C8, amended: the same, for a run started in paper mode.
C8_PaperRestartSameAsUninterrupted ==
    (u.started /\ ~u.flag) => (orders = u.orders /\ Decisions(logs) = Decisions(u.logs))

\* a paper run was restarted and then closed the order it had opened before
C8_Witness ==
    /\ u.started /\ ~u.flag /\ kills >= 1 /\ pc = "sleep"
    /\ last.call.closed

\* C9: only an external termination ends the loop: an exception in a cycle
\* leads to the 30 second back-off and then to the next cycle, the normal
\* sleep leads to the next cycle, a tripped latch does not end the loop, and
\* a running loop can always take its next step.
C9_LoopNeverEnds ==
    /\ [](pc # "stopped" =>
            ENABLED (Wake \/ \E f \in Fetches(candles, FlatBars, MaxNewBars) :
                                \E b \in RiskBalances(is_live) : Cycle(f, b, b)))
    /\ [][/\ (pc # "stopped" /\ pc' = "stopped") => kills' = kills + 1
          /\ (pc = "cycle" /\ last'.outcome \in Errors) => (pc' = "sleep" /\ sleep_s' = BACKOFF_S)
          /\ (pc = "sleep" /\ kills' = kills) => pc' = "cycle"
          /\ (pc = "cycle" /\ is_live /\ ~is_live' /\ kills' = kills) => pc' = "sleep"]_vars

\* a cycle raised after the fetch, the loop backed off and is at its next cycle
C9_Witness ==
    /\ pc = "cycle" /\ kills = 0
    /\ last.outcome \in {"engine", "equity", "zerodiv"}

\* C10: the candles table holds exactly one row per key ever given to
\* store_candles, storing a batch a second time changes nothing, and no
\* stored row is changed or removed by a later store_candles.
C10_StoreIdempotentAppendOnly ==
    /\ [](/\ Keys(SeqToSet(candles)) = ever_keys
          /\ Len(candles) = Cardinality(ever_keys)
          /\ \A b \in StoreBatches :
                store_candles(store_candles(candles, b), b) = store_candles(candles, b))
    /\ [][\A i \in 1..Len(candles) : \E j \in 1..Len(candles') : candles'[j] = candles[i]]_vars

\* a batch with an already stored key was given to store_candles
C10_Witness == last.outcome = "ignored" /\ Len(candles) >= 2

----------------------------------------------------------------------------
(* Properties of label_state *)

Labelled == last.outcome = "labelled"
WellFormed(df) == \A i \in 1..Len(df) : df[i].low <= df[i].close /\ df[i].close <= df[i].high
RangeOf(b) == b.high - b.low
Preceding20(df) == {df[i] : i \in (Len(df) - LOOKBACK) .. (Len(df) - 1)}
LastBar(df) == df[Len(df)]
Expanding(df) == RangeOf(LastBar(df)) > RangeOf(df[Len(df) - 1])
ClosesAbove(df) == \A b \in Preceding20(df) : LastBar(df).close > b.high
ClosesBelow(df) == \A b \in Preceding20(df) : LastBar(df).close < b.low

\* C11: for a window of at least 21 well-formed bars whose last close is above
\* the highest high of the 20 bars before it and whose last range is larger
\* than the range before, label_state returns up; with the last close below
\* the lowest low of the 20 bars before it, it returns down.
C11_BreakoutLabel ==
    (Labelled /\ Len(candles) >= LOOKBACK + 1 /\ WellFormed(candles) /\ Expanding(candles)) =>
        /\ ClosesAbove(candles) => last.call.state = "up"
        /\ ClosesBelow(candles) => last.call.state = "down"

\* a breakout whose last range is within 1.01 of the median range, so that the
\* consolidation test rests on the overlap alone
C11_Witness ==
    /\ Labelled /\ Len(candles) = LOOKBACK + 1 /\ WellFormed(candles) /\ Expanding(candles)
    /\ ClosesAbove(candles)
    /\ 200 * RangeOf(LastBar(candles))
         <= 101 * Median2([i \in 1..LOOKBACK |-> RangeOf(candles[i + 1])])
    /\ last.call.state = "up"

\* C15: label_state returns chaos for every window of fewer than 21 bars.
C15_ShortWindowIsChaos ==
    (Labelled /\ Len(candles) < 21) => last.call.state = "chaos"

\* a window of 20 identical bars was labelled
C15_Witness ==
    /\ Labelled /\ Len(candles) = 20
    /\ \A i \in 1..Len(candles) : RangeOf(candles[i]) = RangeOf(candles[1])

Identical(df) ==
    \A i \in 1..Len(df) :
        /\ df[i].open = df[1].open /\ df[i].high = df[1].high
        /\ df[i].low = df[1].low /\ df[i].close = df[1].close

\* C16: label_state returns consolidation for every window of at least 21
\* identical bars with high >= low.
C16_FlatWindowIsConsolidation ==
    (Labelled /\ Len(candles) >= 21 /\ Identical(candles) /\ candles[1].high >= candles[1].low)
        => last.call.state = "consolidation"

\* windows of 22 identical bars with a range were labelled
C16_Witness ==
    /\ Labelled /\ Len(candles) = 22 /\ Identical(candles)
    /\ candles[1].high > candles[1].low

----------------------------------------------------------------------------
(* Properties of position_size *)

Sized == last.outcome = "sized"

\* C13: position_size returns 0 and does not raise whenever the balance is 0
\* or the price is 0.
C13_ZeroInputsGiveZero ==
    (Sized /\ (last.call.usdc = 0 \/ last.call.price = 0)) =>
        (~last.call.raised /\ last.call.amount = 0)

\* position_size for twice the risk fraction, same balance and price
AtTwiceTheRisk == position_size(last.call.usdc, last.call.price, last.call.risk_den \div 2)

\* C14: position_size(B, P, r) equals position_size(B, P, 2r) / 2, for every
\* balance, every price > 0 and every risk fraction.
C14_HalfOfDoubleRisk ==
    (Sized /\ last.call.price > 0) => 2 * last.call.amount = AtTwiceTheRisk

\* C14, amended: position_size(B, P, r) and position_size(B, P, 2r) / 2 differ
\* by at most half of 1e-8 (twice the one and the other by at most one unit).
C14_HalfOfDoubleRiskRounded ==
    (Sized /\ last.call.price > 0) => Abs(2 * last.call.amount - AtTwiceTheRisk) <= 1

\* a quotient that rounding moves: the two sides differ by one unit
C14_Witness ==
    /\ Sized /\ last.call.price > 0 /\ last.call.usdc > 0
    /\ Abs(2 * last.call.amount - AtTwiceTheRisk) = 1

----------------------------------------------------------------------------
(* Properties of one call of trade_logic *)

Returned == last.outcome = "returned"

\* the (up to) 20 bars before the last bar of df
Before(df) == {df[i] : i \in {j \in 1..(Len(df) - 1) : j >= Len(df) - LOOKBACK}}
HighBefore(df) == SetMax({b.high : b \in Before(df)})
LowBefore(df) == SetMin({b.low : b \in Before(df)})

\* C12: an order that trade_logic opens has the entry price last_close and
\* the stop and target of its regime: up, a buy with stop high20 - atr and
\* target last_close + atr; down, a sell with stop low20 + atr and target
\* last_close - atr; consolidation, a buy with stop low20 - atr or a sell with
\* stop high20 + atr, both with target range_mid.
C12_EntryLevels ==
    last.call.opened =>
        \E o \in orders, atr \in {compute_atr(candles)} :
            LET bar == LastBar(candles)
                h20 == HighBefore(candles)
                l20 == LowBefore(candles)
            IN  /\ o.id = order_seq /\ o.status = "open"
                /\ o.price = bar.close /\ o.ts = bar.ts
                /\ last.call.state \in {"up", "down", "consolidation"}
                /\ last.call.state = "up" =>
                      /\ o.side = "buy"
                      /\ o.stop = S(h20) - atr /\ o.target = S(bar.close) + atr
                /\ last.call.state = "down" =>
                      /\ o.side = "sell"
                      /\ o.stop = S(l20) + atr /\ o.target = S(bar.close) - atr
                /\ last.call.state = "consolidation" =>
                      /\ 2 * o.target = S(h20 + l20)
                      /\ \/ o.side = "buy" /\ o.stop = S(l20) - atr
                         \/ o.side = "sell" /\ o.stop = S(h20) + atr

\* an up breakout was bought with a full lookback behind it
C12_Witness ==
    /\ last.call.opened /\ ~last.call.closed /\ last.call.state = "up"
    /\ Len(candles) > LOOKBACK

\* C17: with an open order, a call closes it if and only if the bar hits the
\* stop or the target the ledger holds after the call (the levels after
\* trailing) or the regime flips; the returned pnl is (last_close - price) *
\* amount, negated for a sell, and 0 in a call that closes nothing.
C17_ClosesIffHitOrFlip ==
    [][/\ \A o \in OpenOrders(orders) : \A p \in orders' :
             p.id = o.id =>
               LET bar  == LastBar(candles')
                   st   == last'.call.state
                   hits == IF o.side = "buy"
                           THEN S(bar.low) <= p.stop \/ S(bar.high) >= p.target
                           ELSE S(bar.high) >= p.stop \/ S(bar.low) <= p.target
                   flip == \/ (st = "up" /\ o.side = "sell")
                           \/ (st = "down" /\ o.side = "buy")
                           \/ st = "chaos"
                   gain == (bar.close - o.price) * o.amount
               IN  /\ (p.status = "closed") <=> (hits \/ flip)
                   /\ last'.call.closed <=> (p.status = "closed")
                   /\ (p.status = "closed" /\ ~last'.call.raised) =>
                         last'.call.pnl = IF o.side = "sell" THEN -gain ELSE gain
       /\ ~last'.call.closed => last'.call.pnl = 0
       /\ OpenOrders(orders) = {} => ~last'.call.closed]_vars

\* an order was closed by its stop or target alone, at a gain or a loss
C17_Witness ==
    /\ last.call.closed /\ last.call.state = "consolidation" /\ last.call.pnl # 0

\* C18: the returned decision is "close" exactly when the call closed an
\* order, "buy" or "sell" exactly when it opened an order of that side, "hold"
\* exactly when it did neither, and never anything else.
C18_DecisionReflectsLedger ==
    Returned =>
        /\ last.call.decision \in {"close", "buy", "sell", "hold"}
        /\ (last.call.decision = "close") <=> last.call.closed
        /\ (last.call.decision \in {"buy", "sell"}) <=> last.call.opened
        /\ last.call.opened =>
              \E o \in orders : o.id = order_seq /\ o.side = last.call.decision
        /\ (last.call.decision = "hold") <=> (~last.call.closed /\ ~last.call.opened)

\* C19: a call with the label chaos opens no order: with no open order the
\* decision is hold and the ledger is unchanged, with an open order that order
\* is closed and nothing new is recorded.
C19_ChaosOpensNothing ==
    [][last'.call.state = "chaos" =>
         /\ ~last'.call.opened
         /\ Ids(orders') = Ids(orders)
         /\ OpenOrders(orders) = {} =>
               /\ orders' = orders
               /\ ~last'.call.raised => last'.call.decision = "hold"
         /\ OpenOrders(orders) # {} =>
               /\ OpenOrders(orders') = {}
               /\ last'.call.closed
               /\ ~last'.call.raised => last'.call.decision = "close"]_vars

\* a chaos call closed the open order and left no order open
C19_Witness ==
    /\ last.call.state = "chaos" /\ last.call.closed /\ Returned
    /\ orders # {} /\ OpenOrders(orders) = {}

UnknownLabels == Labels \ {"consolidation", "up", "down", "chaos"}

\* the dataframes the next call can be given
NextFrames ==
    IF Len(candles) < Cap(candles, MaxCalls)
    THEN {Append(candles, BarAt(max_ts(candles) + TIMEFRAME_MS, v)) : v \in EngineBars}
    ELSE {}

\* C20: for a label outside {consolidation, up, down, chaos} trade_logic does
\* not raise, opens no order, and has the decision and the ledger effects it
\* has for chaos on the same bars and ledger, with an open order and with none
\* (the exchange answering the balance call).
C20_UnknownLabelLikeChaos ==
    \A df \in NextFrames, label \in UnknownLabels, live \in BOOLEAN :
        \A bal \in {b \in EngineBalances(live) : live => b.ok} :
            \A r \in {trade_logic(orders, order_seq, df, label, live, risk_pct, bal)},
               k \in {trade_logic(orders, order_seq, df, "chaos", live, risk_pct, bal)} :
                /\ ~r.raised /\ ~r.opened
                /\ r.decision = k.decision /\ r.orders = k.orders

\* C20, amended: for such a label trade_logic opens no order and raises only
\* when the balance call of live mode raises; with no open order, and with an
\* open order whose stop or target the bar hits, the call does what it does for
\* chaos; with an open order that the bar does not hit it returns hold with
\* pnl 0 and leaves the ledger as it was, where chaos closes the order.
C20_UnknownLabelHolds ==
    \A df \in NextFrames, label \in UnknownLabels, live \in BOOLEAN :
        \A bal \in EngineBalances(live) :
            \A r \in {trade_logic(orders, order_seq, df, label, live, risk_pct, bal)},
               k \in {trade_logic(orders, order_seq, df, "chaos", live, risk_pct, bal)} :
                LET bar == LastBar(df)
                    hit == \E o \in OpenOrders(orders) :
                              IF o.side = "buy"
                              THEN S(bar.low) <= o.stop \/ S(bar.high) >= o.target
                              ELSE S(bar.high) >= o.stop \/ S(bar.low) <= o.target
                IN  /\ ~r.opened
                    /\ r.raised => (live /\ ~bal.ok)
                    /\ (OpenOrders(orders) = {} \/ hit) => r = k
                    /\ (OpenOrders(orders) # {} /\ ~hit) =>
                          /\ r.orders = orders /\ r.decision = "hold" /\ r.pnl = 0
                          /\ ~r.raised /\ ~r.closed
                          /\ k.closed

\* a call with an unknown label held an open order
C20_Witness ==
    /\ Returned /\ last.call.state \in UnknownLabels
    /\ last.call.decision = "hold" /\ ~last.call.closed
    /\ OpenOrders(orders) # {}

\* C21: when the label given to trade_logic is the one label_state computes
\* on the same window of well-formed bars, and no order is open where the
\* entry logic starts (none was open, or the open one was closed in the
\* call), the label up opens a buy and the label down opens a sell: the holds
\* of the up and down entry rules are never taken.
C21_DirectionAlwaysEnters ==
    [][(/\ last'.outcome = "returned"
        /\ WellFormed(candles')
        /\ last'.call.state = label_state(candles')
        /\ OpenOrders(orders) = {} \/ last'.call.closed) =>
          /\ last'.call.state = "up" =>
                /\ last'.call.opened
                /\ \E o \in OpenOrders(orders') : o.id = order_seq' /\ o.side = "buy"
          /\ last'.call.state = "down" =>
                /\ last'.call.opened
                /\ \E o \in OpenOrders(orders') : o.id = order_seq' /\ o.side = "sell"]_vars

\* the computed label was down, the open buy was closed by the flip and a
\* sell was opened in its place
C21_Witness ==
    /\ Returned /\ WellFormed(candles)
    /\ last.call.state = "down" /\ label_state(candles) = "down"
    /\ last.call.closed /\ last.call.opened
    /\ \E o \in OpenOrders(orders) : o.side = "sell"

====
